---- MODULE Spec2Model ----
(***************************************************************************)
(* Star Lottery (Telegram_Stars): the game engine (GameManager), the       *)
(* payment collaborator (TelegramPayments) and the App's handlers, as a    *)
(* state machine over the three tables of the store (games, game_players,  *)
(* user_balances).  Every await of the source is one step of a call, so    *)
(* concurrent calls interleave between their store requests.               *)
(***************************************************************************)
EXTENDS Integers, Sequences, FiniteSets, Bags, TLC

\* ------------------------------------------------------------------ bounds
NumUsers == 3          \* participants 1..NumUsers
MaxGames == 1          \* games the engine's callers create and call on
NumTasks == 2          \* engine calls in flight at the same time
MaxCalls == 3          \* engine calls made in one run
MaxFaults == 1         \* store requests that may fail in one run of FaultSpec
SeedStars == 5         \* the stars_balance of a participant's row in SeededSpec
MaxFee == 100          \* the entry fees of the games of PayoutSpec are 1..MaxFee
MaxDemoGames == 2      \* games the DemoAdapter may hold

Users == 1..NumUsers
GameIds == 1..MaxGames
Tasks == 1..NumTasks

\* createGame's arguments (maxPlayers, entryFee) as the callers draw them
CreateArgs == {<<2, 1>>}

\* ------------------------------------------------------------------ values
NoUser == 0            \* winner_id is null
NoTime == 0            \* completed_at is null
NoCount == -1          \* the count of a failed count request is null
NoTx == <<>>           \* no transaction id
NoGame == [prize_pool |-> 0, entry_fee |-> 0, max_players |-> 0]
NoPay == [requested |-> FALSE, success |-> FALSE, transaction_id |-> NoTx]
NoRow == [present |-> FALSE, stars_balance |-> 0, total_spent |-> 0,
          total_won |-> 0, games_played |-> 0, games_won |-> 0]
NoCurrent == [id |-> 0, status |-> "none", winner_id |-> NoUser]

\* createGame(maxPlayers = 10, entryFee = 1)
DefaultMaxPlayers == 10
DefaultEntryFee == 1

\* the participant the App runs for (getCurrentUser().id)
AppUser == 1

VARIABLES
    games,          \* table games: sequence of rows, a game's id is its index
    game_players,   \* table game_players: a bag of rows
    user_balances,  \* table user_balances: user -> row (NoRow: no row)
    task,           \* the engine calls in flight: slot -> position and locals
    calls,          \* the number of engine calls made so far
    faults,         \* the number of store requests that may still fail
    app             \* the App: the position of initializeApp and gameState

vars == <<games, game_players, user_balances, task, calls, faults, app>>

\* ------------------------------------------------------------------ store
Game(status, maxPlayers, entryFee, pool, winner, completedAt) ==
    [status |-> status, max_players |-> maxPlayers, entry_fee |-> entryFee,
     prize_pool |-> pool, winner_id |-> winner, completed_at |-> completedAt]

Player(g, u, tx) ==
    [game_id |-> g, telegram_user_id |-> u, payment_status |-> "completed",
     transaction_id |-> tx]

GameExists(g) == g \in 1..Len(games)

\* the rows of game_players of game g (as a bag)
PlayersOf(g) ==
    [r \in {x \in BagToSet(game_players) : x.game_id = g} |-> game_players[r]]

\* select count(*) from game_players where game_id = g
PlayerCount(g) == BagCardinality(PlayersOf(g))

\* an existing-player query that finds no row
NoRowsOf(g, u) == 0

\* the number of rows of game g held by user u
RowsOf(g, u) ==
    BagCardinality([r \in {x \in BagToSet(game_players) :
                             x.game_id = g /\ x.telegram_user_id = u}
                     |-> game_players[r]])

\* the user ids of the rows getGamePlayers(g) returns
PlayerIds(g) == {r.telegram_user_id : r \in BagToSet(PlayersOf(g))}

\* new Date(): the clock advances whenever a call is made, so two readings
\* between which no call is made may be equal
Now == calls

\* a store request succeeds (TRUE) or fails (FALSE)
StoreOutcomes == IF faults > 0 THEN BOOLEAN ELSE {TRUE}

Request(ok) == faults' = IF ok THEN faults ELSE faults - 1

\* ------------------------------------------------------------------ calls
IdleTask == [pc |-> "idle", op |-> "none", gameId |-> 0, user |-> NoUser,
             pm |-> FALSE, game |-> NoGame, count |-> NoCount, pay |-> NoPay,
             players |-> {}, winner |-> NoUser, winnings |-> 0,
             atCapacity |-> FALSE, result |-> "none"]

\* a call that has finished keeps its outcome (and what it was, what it was
\* charged and whom it drew) until the caller takes it
Finished(call, outcome) ==
    [IdleTask EXCEPT !.pc = "done", !.op = call.op, !.pay = call.pay,
                     !.winner = call.winner, !.atCapacity = call.atCapacity,
                     !.result = outcome]

\* the participants the state mentions
Known ==
    ({r.telegram_user_id : r \in BagToSet(game_players)}
        \cup {u \in Users : user_balances[u].present}
        \cup {task[t].user : t \in Tasks}) \ {NoUser}

\* participants the state does not mention are interchangeable: of them, the
\* lowest makes the next call
Callers == {u \in Users : u \in Known \/ \A v \in Users : v < u => v \in Known}

\* taking an outcome touches nothing shared, so it is taken before any other step
NoneDone == \A s \in Tasks : task[s].pc # "done"

At(t, pc) == NoneDone /\ task[t].pc = pc

\* a new call takes the lowest free slot
FreeSlot(t) ==
    /\ calls < MaxCalls
    /\ At(t, "idle")
    /\ \A s \in Tasks : s < t => task[s].pc # "idle"

\* useState<GameState>(...): the fields the handlers read (gameFull is
\* players.length >= maxPlayers), and the position of the handler that runs
\* with its locals balance and currentGame; call is the slot of the joinGame
\* call the join handler awaits.  history: eligible, see AppJoin
InitialApp == [pc |-> "idle", balance |-> 0, currentGame |-> NoCurrent,
               loading |-> TRUE, currentGameId |-> 0, hasJoined |-> FALSE,
               userStars |-> 0, selectWinnerCalled |-> FALSE,
               gameFull |-> FALSE, call |-> 0, eligible |-> FALSE]

Init ==
    /\ games = <<>>
    /\ game_players = EmptyBag
    /\ user_balances = [u \in Users |-> NoRow]
    /\ task = [t \in Tasks |-> IdleTask]
    /\ calls = 0
    /\ faults = 0
    /\ app = InitialApp

\* ------------------------------------------------------------ createGame
\* insert into games (status 'waiting', max_players, entry_fee, prize_pool 0)
CreateGame(maxPlayers, entryFee) ==
    /\ NoneDone
    /\ Len(games) < MaxGames
    /\ games' = Append(games, Game("waiting", maxPlayers, entryFee, 0, NoUser, NoTime))
    /\ UNCHANGED <<game_players, user_balances, task, calls, faults, app>>

\* ------------------------------------------------- TelegramPayments (charge)
\* requestStarPayment: the invoice ends paid or not; user_balances is not touched
RequestStarPayment(u, paid) ==
    IF paid
    THEN [requested |-> TRUE, success |-> TRUE, transaction_id |-> <<"star", u>>]
    ELSE [requested |-> TRUE, success |-> FALSE, transaction_id |-> NoTx]

\* ---------------------------------------------------------------- joinGame
\* history: the game held max_players rows when the call was made
AtCapacity(g) == GameExists(g) /\ PlayerCount(g) >= games[g].max_players

\* a joinGame whose read of the game does not filter on the status
JoinReadGameAnyStatus(t, g, u, pm) ==
    /\ FreeSlot(t)
    /\ calls' = calls + 1
    /\ \E ok \in StoreOutcomes :
        LET call == [IdleTask EXCEPT !.op = "joinGame", !.gameId = g,
                                     !.user = u, !.pm = pm,
                                     !.atCapacity = AtCapacity(g)]
        IN  /\ Request(ok)
            /\ IF ok /\ GameExists(g)
               THEN task' = [task EXCEPT ![t] =
                        [call EXCEPT !.pc = "j_count",
                                     !.game = [prize_pool |-> games[g].prize_pool,
                                               entry_fee |-> games[g].entry_fee,
                                               max_players |-> games[g].max_players]]]
               ELSE task' = [task EXCEPT ![t] = Finished(call, "GameNotJoinable")]
    /\ UNCHANGED <<games, game_players, user_balances, app>>

\* select * from games where id = g and status = 'waiting' (.single())
StartJoinGame(t, g, u, pm) ==
    /\ FreeSlot(t)
    /\ calls' = calls + 1
    /\ \E ok \in StoreOutcomes :
        LET call == [IdleTask EXCEPT !.op = "joinGame", !.gameId = g,
                                     !.user = u, !.pm = pm,
                                     !.atCapacity = AtCapacity(g)]
        IN  /\ Request(ok)
            /\ IF ok /\ GameExists(g) /\ games[g].status = "waiting"
               THEN task' = [task EXCEPT ![t] =
                        [call EXCEPT !.pc = "j_count",
                                     !.game = [prize_pool |-> games[g].prize_pool,
                                               entry_fee |-> games[g].entry_fee,
                                               max_players |-> games[g].max_players]]]
               ELSE task' = [task EXCEPT ![t] = Finished(call, "GameNotJoinable")]
    /\ UNCHANGED <<games, game_players, user_balances>>

\* joinGame called by a caller other than the App
JoinReadGame(t, g, u, pm) == StartJoinGame(t, g, u, pm) /\ UNCHANGED app

\* if (count && count >= game.max_players)
IsFull(count, maxPlayers) == count # NoCount /\ count # 0 /\ count >= maxPlayers

\* the count request, then the capacity check
JoinCheckCount(t) ==
    /\ At(t, "j_count")
    /\ \E ok \in StoreOutcomes :
        LET count == IF ok THEN PlayerCount(task[t].gameId) ELSE NoCount
        IN  /\ Request(ok)
            /\ IF IsFull(count, task[t].game.max_players)
               THEN task' = [task EXCEPT ![t] = Finished(task[t], "GameFull")]
               ELSE task' = [task EXCEPT ![t] = [@ EXCEPT !.pc = "j_existing",
                                                          !.count = count]]
    /\ UNCHANGED <<games, game_players, user_balances, calls, app>>

\* a joinGame that went on to the insert whatever the payment result
JoinIgnoringPayment(t, pay) ==
    task' = [task EXCEPT ![t] = [@ EXCEPT !.pc = "j_insert", !.pay = pay]]

\* what joinGame does with the payment result
JoinAfterPayment(t, pay) ==
    IF pay.success
    THEN task' = [task EXCEPT ![t] = [@ EXCEPT !.pc = "j_insert", !.pay = pay]]
    ELSE task' = [task EXCEPT ![t] =
                    Finished([task[t] EXCEPT !.pay = pay], "PaymentFailed")]

\* paymentManager.requestStarPayment(...); without a payment manager the call
\* on undefined throws a TypeError
JoinRequestPayment(t) ==
    IF ~task[t].pm
    THEN task' = [task EXCEPT ![t] = Finished(task[t], "TypeError")]
    ELSE \E paid \in BOOLEAN :
            JoinAfterPayment(t, RequestStarPayment(task[t].user, paid))

\* the existing-player request (.maybeSingle()); a failed request yields no row.
\* The payment request that follows touches nothing shared and is part of the step.
JoinCheckExisting(t) ==
    /\ At(t, "j_existing")
    /\ \E ok \in StoreOutcomes :
        /\ Request(ok)
        /\ IF ok /\ RowsOf(task[t].gameId, task[t].user) > 0
           THEN task' = [task EXCEPT ![t] = Finished(task[t], "AlreadyJoined")]
           ELSE JoinRequestPayment(t)
    /\ UNCHANGED <<games, game_players, user_balances, calls, app>>

\* a store without the uniqueness constraint
NoUniqueConstraint(g, u) == FALSE

\* the store's uniqueness constraint on (game_id, telegram_user_id)
UniqueViolation(g, u) == RowsOf(g, u) > 0

\* insert into game_players
JoinInsertPlayer(t) ==
    /\ At(t, "j_insert")
    /\ \E ok \in StoreOutcomes :
        /\ Request(ok)
        /\ IF ok /\ ~UniqueViolation(task[t].gameId, task[t].user)
           THEN /\ game_players' = game_players (+)
                    SetToBag({Player(task[t].gameId, task[t].user,
                                     task[t].pay.transaction_id)})
                /\ task' = [task EXCEPT ![t] = [@ EXCEPT !.pc = "j_update"]]
           ELSE /\ task' = [task EXCEPT ![t] = Finished(task[t], "JoinFailed")]
                /\ UNCHANGED game_players
    /\ UNCHANGED <<games, user_balances, calls, app>>

\* const newPlayerCount = (count || 0) + 1
NewPlayerCount(count) == (IF count = NoCount THEN 0 ELSE count) + 1

\* status: newPlayerCount >= game.max_players ? 'full' : 'waiting'
NewStatus(count, maxPlayers) ==
    IF NewPlayerCount(count) >= maxPlayers THEN "full" ELSE "waiting"

\* const newPrizePool = game.prize_pool + game.entry_fee
NewPrizePool(game) == game.prize_pool + game.entry_fee

\* update games set prize_pool, status where id = gameId; its error is not read
JoinUpdateGame(t) ==
    /\ At(t, "j_update")
    /\ \E ok \in StoreOutcomes :
        /\ Request(ok)
        /\ IF ok
           THEN games' = [games EXCEPT ![task[t].gameId] =
                    [@ EXCEPT !.prize_pool = NewPrizePool(task[t].game),
                              !.status = NewStatus(task[t].count,
                                                   task[t].game.max_players)]]
           ELSE UNCHANGED games
    /\ task' = [task EXCEPT ![t] = Finished(task[t], "ok")]
    /\ UNCHANGED <<game_players, user_balances, calls, app>>

\* the caller takes the outcome; the slot is free for the next call (the
\* outcome of the call the App's join handler awaits is taken by that handler)
Return(t) ==
    /\ task[t].pc = "done"
    /\ ~(app.pc = "a_joining" /\ app.call = t)
    /\ task' = [task EXCEPT ![t] = IdleTask]
    /\ UNCHANGED <<games, game_players, user_balances, calls, faults, app>>

\* ------------------------------------------------------------- selectWinner
\* the largest power of two that is at most n (n >= 1)
RECURSIVE Pow2Floor(_)
Pow2Floor(n) == IF n < 2 THEN 1 ELSE 2 * Pow2Floor(n \div 2)

\* Math.floor(prize_pool * 0.7) in IEEE-754 double arithmetic.  The double
\* 0.7 is 0.7 - 0.2 * 2^-52, so the exact product falls short of 7p/10 by
\* p/5 * 2^-52: that matters only when 7p/10 is an integer 7k (p = 10k), and
\* the product then rounds to the double below 7k exactly when the shortfall
\* k * 2^-51 exceeds half an ulp of 7k, that is when 4k > Pow2Floor(7k).
Winnings(pool) ==
    IF pool > 0 /\ pool % 10 = 0 /\ 4 * (pool \div 10) > Pow2Floor(7 * (pool \div 10))
    THEN (7 * pool) \div 10 - 1
    ELSE (7 * pool) \div 10

\* a selectWinner without the empty check
StartSelectWinnerUnchecked(t, g, pm) ==
    /\ FreeSlot(t)
    /\ calls' = calls + 1
    /\ \E ok \in StoreOutcomes :
        LET call == [IdleTask EXCEPT !.op = "selectWinner", !.gameId = g, !.pm = pm]
        IN  /\ Request(ok)
            /\ IF ~ok
               THEN task' = [task EXCEPT ![t] = Finished(call, "StorageError")]
               ELSE task' = [task EXCEPT ![t] =
                        [call EXCEPT !.pc = "s_game", !.players = PlayerIds(g)]]
    /\ UNCHANGED <<games, game_players, user_balances>>

\* getGamePlayers(gameId), then the empty check
StartSelectWinner(t, g, pm) ==
    /\ FreeSlot(t)
    /\ calls' = calls + 1
    /\ \E ok \in StoreOutcomes :
        LET call == [IdleTask EXCEPT !.op = "selectWinner", !.gameId = g, !.pm = pm]
        IN  /\ Request(ok)
            /\ IF ~ok
               THEN task' = [task EXCEPT ![t] = Finished(call, "StorageError")]
               ELSE IF PlayerIds(g) = {}
               THEN task' = [task EXCEPT ![t] = Finished(call, "NoPlayers")]
               ELSE task' = [task EXCEPT ![t] =
                        [call EXCEPT !.pc = "s_game", !.players = PlayerIds(g)]]
    /\ UNCHANGED <<games, game_players, user_balances>>

\* selectWinner called by a caller other than the App
SelectReadPlayers(t, g, pm) == StartSelectWinner(t, g, pm) /\ UNCHANGED app

\* a draw among all participants instead of the game's players
DrawAmongAllUsers(players) == Users

\* players[Math.floor(Math.random() * players.length)]
DrawWinner(players) == players

\* select prize_pool from games where id = gameId; then the draw and the split
SelectReadGame(t) ==
    /\ At(t, "s_game")
    /\ \E ok \in StoreOutcomes :
        /\ Request(ok)
        /\ IF ok /\ GameExists(task[t].gameId)
           THEN \E w \in DrawWinner(task[t].players) :
                LET winnings == Winnings(games[task[t].gameId].prize_pool)
                IN  task' = [task EXCEPT ![t] =
                        [@ EXCEPT !.pc = IF winnings > 0 THEN "s_transfer"
                                                         ELSE "s_update",
                                  !.winner = w, !.winnings = winnings]]
           ELSE task' = [task EXCEPT ![t] = Finished(task[t], "GameNotFound")]
    /\ UNCHANGED <<games, game_players, user_balances, calls, app>>

\* transferStarsToWinner's upsert into user_balances: the columns it names are
\* set to the values it gives, the other columns keep their value (or default)
TransferUpsert(row, amount) ==
    [row EXCEPT !.present = TRUE, !.stars_balance = amount,
                !.total_won = amount, !.games_won = 1]

\* paymentManager.transferStarsToWinner(winner, winnings): the upsert goes
\* through or not, and the result is not read; without a payment manager the
\* call on undefined throws a TypeError
SelectTransfer(t) ==
    /\ At(t, "s_transfer")
    /\ IF ~task[t].pm
       THEN /\ task' = [task EXCEPT ![t] = Finished(task[t], "TypeError")]
            /\ UNCHANGED user_balances
       ELSE \E success \in BOOLEAN :
            /\ user_balances' =
                 IF success
                 THEN [user_balances EXCEPT ![task[t].winner] =
                         TransferUpsert(@, task[t].winnings)]
                 ELSE user_balances
            /\ task' = [task EXCEPT ![t] =
                    [@ EXCEPT !.pc = "s_update",
                              !.pay = [requested |-> TRUE, success |-> success,
                                       transaction_id |->
                                         IF success THEN <<"transfer", task[t].winner>>
                                                    ELSE NoTx]]]
    /\ UNCHANGED <<games, game_players, calls, faults, app>>

\* a selectWinner that reads the payout's result and reports its failure
\* instead of completing the game
SelectUpdateGameIfPaid(t) ==
    /\ At(t, "s_update")
    /\ \E ok \in StoreOutcomes :
        /\ Request(ok)
        /\ IF task[t].pay.requested /\ ~task[t].pay.success
           THEN /\ UNCHANGED games
                /\ task' = [task EXCEPT ![t] = Finished(task[t], "PayoutFailed")]
           ELSE /\ IF ok
                   THEN games' = [games EXCEPT ![task[t].gameId] =
                            [@ EXCEPT !.status = "completed",
                                      !.winner_id = task[t].winner,
                                      !.completed_at = Now]]
                   ELSE UNCHANGED games
                /\ task' = [task EXCEPT ![t] = Finished(task[t], "ok")]
    /\ UNCHANGED <<game_players, user_balances, calls, app>>

\* update games set status = 'completed', winner_id, completed_at where
\* id = gameId; its error is not read
SelectUpdateGame(t) ==
    /\ At(t, "s_update")
    /\ \E ok \in StoreOutcomes :
        /\ Request(ok)
        /\ IF ok
           THEN games' = [games EXCEPT ![task[t].gameId] =
                    [@ EXCEPT !.status = "completed",
                              !.winner_id = task[t].winner,
                              !.completed_at = Now]]
           ELSE UNCHANGED games
    /\ task' = [task EXCEPT ![t] = Finished(task[t], "ok")]
    /\ UNCHANGED <<game_players, user_balances, calls, app>>

\* ---------------------------------------------------------- getCurrentGame
\* select * from games where status = 'waiting' order by created_at desc
\* limit 1: the latest waiting game, 0 when there is none
GetCurrentGame ==
    LET waiting == {g \in 1..Len(games) : games[g].status = "waiting"}
    IN  IF waiting = {} THEN NoCurrent
        ELSE LET g == CHOOSE x \in waiting : \A y \in waiting : y <= x
             IN  [id |-> g, status |-> games[g].status,
                  winner_id |-> games[g].winner_id]

\* ------------------------------------------------- getUserBalance (payments)
\* data?.stars_balance || 0, and 0 when the request fails
GetUserBalance(u, ok) ==
    IF ok /\ user_balances[u].present THEN user_balances[u].stars_balance ELSE 0

\* ------------------------------------------------------- App: initializeApp
\* initializeApp is called (on mount, after a join, on a change notification):
\* setGameState(loading: true)
AppInitialize ==
    /\ app.pc = "idle"
    /\ app' = [app EXCEPT !.pc = "a_balance", !.loading = TRUE]
    /\ UNCHANGED <<games, game_players, user_balances, task, calls, faults>>

\* the catch block: the alert, then setGameState(loading: false)
AppFailed == [app EXCEPT !.pc = "idle", !.loading = FALSE]

\* const balance = await paymentManager.getUserBalance(user.id)
AppGetUserBalance ==
    /\ app.pc = "a_balance"
    /\ \E ok \in StoreOutcomes :
        /\ Request(ok)
        /\ app' = [app EXCEPT !.pc = "a_current",
                              !.balance = GetUserBalance(AppUser, ok)]
    /\ UNCHANGED <<games, game_players, user_balances, task, calls>>

\* currentGame = await gameManager.getCurrentGame(): the first request (from
\* "a_current") leads to createGame when there is no waiting game, the
\* second (from "a_again") ends initializeApp when there is still none
AppGetCurrentGame ==
    /\ app.pc \in {"a_current", "a_again"}
    /\ \E ok \in StoreOutcomes :
        /\ Request(ok)
        /\ app' = IF ~ok THEN AppFailed
                  ELSE IF GetCurrentGame # NoCurrent
                  THEN [app EXCEPT !.pc = "a_players",
                                   !.currentGame = GetCurrentGame]
                  ELSE IF app.pc = "a_current"
                  THEN [app EXCEPT !.pc = "a_create"]
                  ELSE [app EXCEPT !.pc = "idle"]
    /\ UNCHANGED <<games, game_players, user_balances, task, calls>>

\* await gameManager.createGame(): the defaults.  It is reached only when no
\* game is waiting, and the game it creates stays waiting until callers fill
\* or complete it, so the App adds one game at most to those it is given
AppCreateGame ==
    /\ app.pc = "a_create"
    /\ games' = Append(games, Game("waiting", DefaultMaxPlayers,
                                   DefaultEntryFee, 0, NoUser, NoTime))
    /\ app' = [app EXCEPT !.pc = "a_again"]
    /\ UNCHANGED <<game_players, user_balances, task, calls, faults>>

\* what setGameState stores once the players are read
AppShow(players) ==
    [app EXCEPT !.currentGameId = app.currentGame.id,
                !.hasJoined = AppUser \in players,
                !.gameFull = Cardinality(players) >=
                                 games[app.currentGame.id].max_players,
                !.userStars = app.balance,
                !.loading = FALSE]

\* if (currentGame.status === 'full' && !currentGame.winner_id), on the
\* game record getCurrentGame returned
NeedsWinner(currentGame) ==
    currentGame.status = "full" /\ currentGame.winner_id = NoUser

\* const players = await gameManager.getGamePlayers(currentGame.id), then
\* setGameState(...)
AppGetGamePlayers ==
    /\ app.pc = "a_players"
    /\ \E ok \in StoreOutcomes :
        /\ Request(ok)
        /\ app' = IF ok
                  THEN [AppShow(PlayerIds(app.currentGame.id)) EXCEPT !.pc = "a_check"]
                  ELSE AppFailed
    /\ UNCHANGED <<games, game_players, user_balances, task, calls>>

\* the check for a full game: gameManager.selectWinner(currentGame.id) is
\* called, with no payment manager, when the check passes
AppCheckFull ==
    /\ app.pc = "a_check"
    /\ IF NeedsWinner(app.currentGame)
       THEN /\ \E t \in Tasks : StartSelectWinner(t, app.currentGame.id, FALSE)
            /\ app' = [app EXCEPT !.pc = "idle", !.selectWinnerCalled = TRUE]
       ELSE /\ app' = [app EXCEPT !.pc = "idle"]
            /\ UNCHANGED <<games, game_players, user_balances, task, calls, faults>>

\* ------------------------------------------------------ App: the join button
\* The button is disabled while hasJoined, players.length >= maxPlayers,
\* userStars < 1 or loading; the handler returns at once while loading or
\* without a currentGameId.  Then setGameState(loading: true) and
\* gameManager.joinGame(currentGameId, user), called with no payment manager.
\* history: eligible records that, when the call is made, the game is waiting
\* with free capacity, and the participant holds no record of it and a
\* balance of at least its entry fee
AppJoin ==
    /\ app.pc = "idle"
    /\ ~app.loading /\ app.currentGameId # 0
    /\ app.userStars >= 1 /\ ~app.hasJoined /\ ~app.gameFull
    /\ \E t \in Tasks :
        /\ StartJoinGame(t, app.currentGameId, AppUser, FALSE)
        /\ app' = [app EXCEPT
              !.pc = "a_joining", !.loading = TRUE, !.call = t,
              !.eligible =
                  LET g == app.currentGameId
                  IN  /\ games[g].status = "waiting"
                      /\ PlayerCount(g) < games[g].max_players
                      /\ RowsOf(g, AppUser) = 0
                      /\ GetUserBalance(AppUser, TRUE) >= games[g].entry_fee]

\* await gameManager.joinGame(...) is over: initializeApp() when it returned,
\* the catch block (the alert, then setGameState(loading: false)) when it threw
AppJoinReturned ==
    /\ app.pc = "a_joining"
    /\ task[app.call].pc = "done"
    /\ task' = [task EXCEPT ![app.call] = IdleTask]
    /\ app' = IF task[app.call].result = "ok"
              THEN [app EXCEPT !.pc = "a_balance", !.loading = TRUE, !.call = 0]
              ELSE [app EXCEPT !.pc = "idle", !.loading = FALSE, !.call = 0]
    /\ UNCHANGED <<games, game_players, user_balances, calls, faults>>

\* ------------------------------------------------------------ specification
\* engine calls made with a payment manager, in any interleaving
\* the calls the engine's callers make, with a payment manager
EngineCall ==
    \/ \E a \in CreateArgs : CreateGame(a[1], a[2])
    \/ \E t \in Tasks, g \in GameIds, u \in Callers : JoinReadGame(t, g, u, TRUE)
    \/ \E t \in Tasks, g \in GameIds : SelectReadPlayers(t, g, TRUE)

\* the steps of the calls in flight
EngineStep ==
    \/ \E t \in Tasks : JoinCheckCount(t)
    \/ \E t \in Tasks : JoinCheckExisting(t)
    \/ \E t \in Tasks : JoinInsertPlayer(t)
    \/ \E t \in Tasks : JoinUpdateGame(t)
    \/ \E t \in Tasks : SelectReadGame(t)
    \/ \E t \in Tasks : SelectTransfer(t)
    \/ \E t \in Tasks : SelectUpdateGame(t)
    \/ \E t \in Tasks : Return(t)

Next == EngineCall \/ EngineStep

Spec == Init /\ [][Next]_vars

\* the same calls against a store of which MaxFaults requests may fail
FaultInit ==
    /\ games = <<>>
    /\ game_players = EmptyBag
    /\ user_balances = [u \in Users |-> NoRow]
    /\ task = [t \in Tasks |-> IdleTask]
    /\ calls = 0
    /\ faults = MaxFaults
    /\ app = InitialApp

FaultSpec == FaultInit /\ [][Next]_vars

\* the same calls against a store in which some participants hold a
\* user_balances row with SeedStars stars from the start
SeededRow == [NoRow EXCEPT !.present = TRUE, !.stars_balance = SeedStars]

SeededInit ==
    /\ games = <<>>
    /\ game_players = EmptyBag
    /\ user_balances \in [Users -> {NoRow, SeededRow}]
    /\ task = [t \in Tasks |-> IdleTask]
    /\ calls = 0
    /\ faults = 0
    /\ app = InitialApp

SeededSpec == SeededInit /\ [][Next]_vars

\* selectWinner calls on a game of one player that its player has joined:
\* createGame(1, fee), then one joinGame run to its end
PayoutInit ==
    \E fee \in 1..MaxFee :
        /\ games = <<Game("full", 1, fee, fee, NoUser, NoTime)>>
        /\ game_players = SetToBag({Player(1, 1, RequestStarPayment(1, TRUE).transaction_id)})
        /\ user_balances = [u \in Users |-> NoRow]
        /\ task = [t \in Tasks |-> IdleTask]
        /\ calls = 0
        /\ faults = 0
        /\ app = InitialApp

PayoutNext ==
    \/ \E t \in Tasks, g \in GameIds : SelectReadPlayers(t, g, TRUE)
    \/ \E t \in Tasks : SelectReadGame(t)
    \/ \E t \in Tasks : SelectTransfer(t)
    \/ \E t \in Tasks : SelectUpdateGame(t)
    \/ \E t \in Tasks : Return(t)

PayoutSpec == PayoutInit /\ [][PayoutNext]_vars

\* the same calls, with createGame also given arguments that are not positive
CreateInputs == {<<2, 1>>, <<0, 1>>, <<2, 0>>}

CreateNext ==
    \/ \E a \in CreateInputs : CreateGame(a[1], a[2])
    \/ \E t \in Tasks, g \in GameIds, u \in Callers : JoinReadGame(t, g, u, TRUE)
    \/ \E t \in Tasks, g \in GameIds : SelectReadPlayers(t, g, TRUE)
    \/ EngineStep

CreateSpec == Init /\ [][CreateNext]_vars

\* ------------------------------------------------------------- DemoAdapter
\* The in-memory adapter keeps its games in a Map (iterated in insertion
\* order: the order of the sequence games) and each game's players in an
\* array (the rows of game_players).  Its methods hold no await: each call is
\* one step.

\* DemoAdapter.createGame: the key is 'demo-game-' + Date.now(), so a call in
\* the millisecond of the latest createGame (sameMs) gets that game's key,
\* and the two Map.set replace that game and empty its players
DemoCreateGame(maxPlayers, entryFee, sameMs) ==
    /\ IF sameMs /\ Len(games) > 0
       THEN /\ games' = [games EXCEPT ![Len(games)] =
                    Game("waiting", maxPlayers, entryFee, 0, NoUser, NoTime)]
            /\ game_players' =
                 [r \in {x \in BagToSet(game_players) : x.game_id # Len(games)}
                    |-> game_players[r]]
       ELSE /\ Len(games) < MaxDemoGames
            /\ games' = Append(games,
                    Game("waiting", maxPlayers, entryFee, 0, NoUser, NoTime))
            /\ UNCHANGED game_players
    /\ UNCHANGED <<user_balances, task, calls, faults, app>>

\* DemoAdapter.joinGame: it throws 'Game full or not found', changing
\* nothing, unless the game exists and holds fewer than max_players players
DemoJoinGame(g, u) ==
    /\ GameExists(g)
    /\ PlayerCount(g) < games[g].max_players
    /\ game_players' = game_players (+) SetToBag({Player(g, u, NoTx)})
    /\ games' = [games EXCEPT ![g] =
            [@ EXCEPT !.prize_pool = @ + games[g].entry_fee,
                      !.status = IF PlayerCount(g) + 1 >= games[g].max_players
                                 THEN "full" ELSE @]]
    /\ UNCHANGED <<user_balances, task, calls, faults, app>>

\* DemoAdapter.getCurrentGame: the first waiting game in the Map's order
DemoGetCurrentGame ==
    LET waiting == {g \in 1..Len(games) : games[g].status = "waiting"}
    IN  IF waiting = {} THEN NoCurrent
        ELSE LET g == CHOOSE x \in waiting : \A y \in waiting : x <= y
             IN  [id |-> g, status |-> games[g].status,
                  winner_id |-> games[g].winner_id]

DemoNext ==
    \/ \E a \in CreateArgs, sameMs \in BOOLEAN : DemoCreateGame(a[1], a[2], sameMs)
    \/ \E g \in 1..MaxDemoGames, u \in Users : DemoJoinGame(g, u)

DemoSpec == Init /\ [][DemoNext]_vars

\* the App beside the engine's other callers.  The event loop runs every
\* continuation that is ready, and initializeApp is run again and again (on
\* mount, after each join, on each change notification)
AppStep ==
    \/ AppInitialize
    \/ AppGetUserBalance
    \/ AppGetCurrentGame
    \/ AppCreateGame
    \/ AppGetGamePlayers
    \/ AppCheckFull

AppNext == Next \/ AppStep

AppSpec ==
    /\ Init
    /\ [][AppNext]_vars
    /\ WF_vars(AppStep)
    /\ WF_vars(EngineStep)

\* the App with its join button, for a participant who holds SeedStars stars,
\* beside the engine's other callers and against a store of which MaxFaults
\* requests may fail
ClientInit ==
    /\ games = <<>>
    /\ game_players = EmptyBag
    /\ user_balances = [u \in Users |-> IF u = AppUser THEN SeededRow ELSE NoRow]
    /\ task = [t \in Tasks |-> IdleTask]
    /\ calls = 0
    /\ faults \in {0, MaxFaults}
    /\ app = InitialApp

ClientStep ==
    \/ AppStep
    \/ AppJoin
    \/ AppJoinReturned

ClientNext == Next \/ ClientStep

ClientSpec == ClientInit /\ [][ClientNext]_vars

\* ------------------------------------------------------------------ claims
Created == 1..Len(games)

Idle == \A t \in Tasks : task[t].pc = "idle"

\* the rows of game g whose payment_status is completed
CompletedPayments(g) ==
    BagCardinality([r \in {x \in BagToSet(game_players) :
                             x.game_id = g /\ x.payment_status = "completed"}
                     |-> game_players[r]])

Rank(status) == CASE status = "waiting" -> 0 [] status = "full" -> 1
                  [] status = "completed" -> 2

\* C1: under every interleaving of joinGame calls, a game never holds more
\* player records than its max_players.
CapacityNeverExceeded ==
    \A g \in Created : PlayerCount(g) <= games[g].max_players

\* C2: while a game is waiting or full, its prize_pool equals entry_fee times
\* the number of its player records with payment_status completed.
PrizePoolMatchesPlayers ==
    \A g \in Created :
        games[g].status \in {"waiting", "full"} =>
            games[g].prize_pool = games[g].entry_fee * CompletedPayments(g)

\* C3: no game ever holds two player records of the same user.
NoDoubleJoin == \A g \in GameIds, u \in Users : RowsOf(g, u) <= 1

\* C3 witness: of two concurrent joins by one user that both passed the
\* existing check and were both charged, the second insert was refused.
DuplicateInsertRefused ==
    \E t \in Tasks :
        /\ task[t].pc = "done" /\ task[t].op = "joinGame"
        /\ task[t].result = "JoinFailed" /\ task[t].pay.success
        /\ \E g \in Created : RowsOf(g, task[t].pay.transaction_id[2]) = 1

\* C4: no step moves a game's status backward along waiting, full, completed.
StatusForwardOnly ==
    [][\A g \in Created : Rank(games'[g].status) >= Rank(games[g].status)]_vars

\* C5: a completed game has a winner_id, and exactly one player record of
\* that game carries it.
CompletedHasWinner ==
    \A g \in Created :
        games[g].status = "completed" =>
            /\ games[g].winner_id # NoUser
            /\ RowsOf(g, games[g].winner_id) = 1

\* C5 witness: a game with two player records has been completed.
CompletedGameOfTwo ==
    \E g \in Created : games[g].status = "completed" /\ PlayerCount(g) = 2

\* C6: no step lowers a game's prize_pool, and no step leaves it above
\* max_players times entry_fee.
PrizePoolMonotoneBounded ==
    [][\A g \in Created :
        /\ games'[g].prize_pool >= games[g].prize_pool
        /\ games'[g].prize_pool <= games'[g].max_players * games'[g].entry_fee]_vars

\* C7: with initializeApp run again and again and every call in flight run to
\* its end, a game that is full (with no call in flight that could still
\* write its status) is eventually completed with a winner.
FullLeadsToCompleted ==
    \A g \in GameIds :
        (Idle /\ GameExists(g) /\ games[g].status = "full")
            ~> (/\ GameExists(g)
                /\ games[g].status = "completed"
                /\ games[g].winner_id # NoUser)

\* C8: once every joinGame call has returned, a game that holds max_players
\* player records is not waiting.
FullWhenAtCapacity ==
    Idle => \A g \in Created :
                PlayerCount(g) >= games[g].max_players => games[g].status # "waiting"

\* C9: a joinGame call made on a game that already holds max_players player
\* records ends with GameFull, takes no charge and changes neither the
\* player records nor the game.
JoinAtCapacityIsGameFull ==
    [][\A t \in Tasks :
        (task'[t].op = "joinGame" /\ task'[t].atCapacity /\ task'[t] # task[t]) =>
            /\ task'[t].pc = "done" => task'[t].result = "GameFull"
            /\ ~task'[t].pay.requested
            /\ UNCHANGED <<games, game_players, user_balances>>]_vars

\* C10: when the charge fails, joinGame ends at once with PaymentFailed, and
\* the balance records, the player records and the games are unchanged.
FailedChargeAborts ==
    [][\A t \in Tasks :
        (task[t].pc = "j_existing" /\ task'[t].pay.requested
            /\ ~task'[t].pay.success) =>
            /\ task'[t].pc = "done"
            /\ task'[t].result = "PaymentFailed"
            /\ UNCHANGED <<games, game_players, user_balances>>]_vars

\* C10 witness: a joinGame call has ended with PaymentFailed on a game that
\* another participant had joined.
ChargeFailed ==
    \E t \in Tasks :
        /\ task[t].pc = "done" /\ task[t].op = "joinGame"
        /\ task[t].result = "PaymentFailed"
        /\ \E g \in Created : PlayerCount(g) > 0

\* C11: a join that reaches the charge while the participant's stars_balance
\* is lower than the entry fee ends with PaymentFailed, and the games, the
\* player records and the balance records are unchanged.
InsufficientBalanceRejected ==
    [][\A t \in Tasks :
        (/\ task[t].pc = "j_existing"
         /\ task'[t].pay.requested
         /\ GetUserBalance(task[t].user, TRUE) < task[t].game.entry_fee) =>
            /\ task'[t].pc = "done"
            /\ task'[t].result = "PaymentFailed"
            /\ UNCHANGED <<games, game_players, user_balances>>]_vars

\* the entry fees of the player records user u holds in the games gs
RECURSIVE FeesOfRecords(_, _)
FeesOfRecords(gs, u) ==
    IF gs = {} THEN 0
    ELSE LET g == CHOOSE x \in gs : TRUE
         IN  games[g].entry_fee * RowsOf(g, u) + FeesOfRecords(gs \ {g}, u)

JoinInFlight(u) ==
    \E t \in Tasks :
        task[t].op = "joinGame" /\ task[t].pc # "done" /\ task[t].user = u

\* C12: every successful joinGame takes the entry fee from the participant's
\* stars_balance and adds it to total_spent: a participant who started with
\* SeedStars stars, has won nothing and has no join in flight holds SeedStars
\* less the fees of their player records, and has spent those fees.
JoinDebitsBalance ==
    \A u \in Users :
        (/\ user_balances[u].present
         /\ user_balances[u].total_won = 0
         /\ ~JoinInFlight(u)) =>
            /\ user_balances[u].stars_balance =
                   SeedStars - FeesOfRecords(Created, u)
            /\ user_balances[u].total_spent = FeesOfRecords(Created, u)

\* C13: the amount selectWinner asks the payment collaborator to transfer is
\* the integer quotient of 7 * prize_pool by 10, and is at most prize_pool
\* (no joinGame runs in PayoutSpec, so the prize_pool read is the game's).
PayoutIsSeventyPercent ==
    \A t \in Tasks :
        task[t].pc = "s_transfer" =>
            /\ task[t].winnings = (7 * games[task[t].gameId].prize_pool) \div 10
            /\ task[t].winnings <= games[task[t].gameId].prize_pool

\* C14: a successful payout of amount w adds w to the winner's stars_balance
\* and total_won and 1 to games_won, whatever the winner's row held before.
PayoutIncrementsBalance ==
    [][\A t \in Tasks :
        (task[t].pc = "s_transfer" /\ task'[t].pay.success) =>
            LET before == user_balances[task[t].winner]
                after == user_balances'[task[t].winner]
            IN  /\ after.stars_balance = before.stars_balance + task[t].winnings
                /\ after.total_won = before.total_won + task[t].winnings
                /\ after.games_won = before.games_won + 1]_vars

CompletedGameFrozen ==
    [][\A g \in Created :
        games[g].status = "completed" =>
            /\ games'[g].winner_id = games[g].winner_id
            /\ games'[g].completed_at = games[g].completed_at
            /\ games'[g].prize_pool = games[g].prize_pool]_vars

\* C17: a joinGame call goes past its first check only on a game that exists
\* and is waiting; otherwise it ends there with GameNotJoinable, without a
\* charge and without a change to the games, the player records or the
\* balance records.
NotJoinableRejected ==
    [][\A t \in Tasks :
        (task[t].pc = "idle" /\ task'[t].op = "joinGame") =>
            \/ /\ task'[t].pc = "j_count"
               /\ GameExists(task'[t].gameId)
               /\ games[task'[t].gameId].status = "waiting"
            \/ /\ task'[t].pc = "done"
               /\ task'[t].result = "GameNotJoinable"
               /\ ~task'[t].pay.requested
               /\ UNCHANGED <<games, game_players, user_balances>>]_vars

\* C17 witness: a joinGame call on a game that is no longer waiting has ended
\* with GameNotJoinable.
JoinOnClosedGameRejected ==
    \E t \in Tasks :
        /\ task[t].pc = "done" /\ task[t].op = "joinGame"
        /\ task[t].result = "GameNotJoinable"
        /\ \A g \in GameIds : GameExists(g) /\ games[g].status # "waiting"

HoldsRecord(g, u) ==
    \E r \in BagToSet(game_players) : r.game_id = g /\ r.telegram_user_id = u

NoPlayersRejected ==
    [][\A t \in Tasks :
        (task[t].pc = "idle" /\ task'[t].op = "selectWinner") =>
            \/ /\ task'[t].pc = "s_game"
               /\ PlayerCount(task'[t].gameId) > 0
            \/ /\ task'[t].pc = "done"
               /\ task'[t].result = "NoPlayers"
               /\ ~task'[t].pay.requested
               /\ UNCHANGED <<games, game_players, user_balances>>]_vars

\* C19 witness: a selectWinner call on a waiting game without player records
\* has ended with NoPlayers.
SelectOnEmptyGameRejected ==
    \E t \in Tasks :
        /\ task[t].pc = "done" /\ task[t].op = "selectWinner"
        /\ task[t].result = "NoPlayers"
        /\ \E g \in Created :
            /\ PlayerCount(g) = 0
            /\ games[g].status = "waiting"
            /\ games[g].winner_id = NoUser
            /\ games[g].completed_at = NoTime

\* C20: every game createGame adds is waiting with prize_pool 0 and has a
\* positive max_players and a positive entry_fee (a call with an argument
\* that is not positive adds no game).
CreateGameValidates ==
    [][Len(games') > Len(games) =>
        LET game == games'[Len(games')]
        IN  /\ game.status = "waiting"
            /\ game.prize_pool = 0
            /\ game.max_players > 0
            /\ game.entry_fee > 0]_vars

\* the game created last among the waiting games (none: NoCurrent)
LatestWaiting ==
    LET waiting == {g \in Created : games[g].status = "waiting"}
    IN  IF waiting = {} THEN NoCurrent
        ELSE LET g == CHOOSE x \in waiting : \A y \in waiting : y <= x
             IN  [id |-> g, status |-> "waiting", winner_id |-> games[g].winner_id]

\* C21: getCurrentGame returns the waiting game created last, and none
\* exactly when no game is waiting (here: DemoAdapter.getCurrentGame).
CurrentGameIsLatestWaiting == DemoGetCurrentGame = LatestWaiting

\* C24: every player record whose payment_status is completed carries a
\* transaction_id (here: the records DemoAdapter.joinGame creates).
CompletedCarriesTransaction ==
    \A r \in BagToSet(game_players) :
        r.payment_status = "completed" => r.transaction_id # NoTx

\* C30: after every sequence of DemoAdapter.createGame and joinGame calls, a
\* game holds at most max_players players, its prize_pool is entry_fee times
\* its player count, it is full exactly when it holds max_players or more,
\* and no two of its player records have the same telegram_user_id.
DemoAdapterKeepsInvariants ==
    \A g \in Created :
        /\ PlayerCount(g) <= games[g].max_players
        /\ games[g].prize_pool = games[g].entry_fee * PlayerCount(g)
        /\ games[g].status = "full" <=> PlayerCount(g) >= games[g].max_players
        /\ \A u \in Users : RowsOf(g, u) <= 1

\* C26: once a joinGame call that charged its participant has finished,
\* returning or failing, a player record of that participant exists.
ChargeMatchedByRecord ==
    \A t \in Tasks :
        (task[t].pc = "done" /\ task[t].op = "joinGame" /\ task[t].pay.success)
            => \E g \in Created : HoldsRecord(g, task[t].pay.transaction_id[2])

\* C27: a joinGame call whose count request failed (count is null) inserts no
\* record into a game that holds max_players records already, and writes the
\* game no status computed from a count of 0: the status it writes, if any,
\* is the one the game's records give (stated for a call that runs alone).
NullCountChangesNothing ==
    [][\A t \in Tasks :
          (/\ task[t].op = "joinGame" /\ task[t].count = NoCount
           /\ \A s \in Tasks \ {t} : task[s].pc = "idle") =>
              /\ (task[t].pc = "j_insert" /\ task'[t].pc = "j_update"
                     /\ AtCapacity(task[t].gameId))
                    => game_players' = game_players
              /\ (task[t].pc = "j_update" /\ task'[t].pc = "done")
                    => \/ games' = games
                       \/ games'[task[t].gameId].status =
                              IF AtCapacity(task[t].gameId) THEN "full" ELSE "waiting"]_vars

\* C25: transferStarsToWinner is invoked at most once for a game: a
\* selectWinner call invokes it neither for a game that an earlier call has
\* paid out and completed, nor beside a call in flight that has invoked it
\* for the same game.
TransferAtMostOnce ==
    [][\A t \in Tasks :
          (task[t].pc = "s_transfer" /\ task'[t].pc = "s_update") =>
              /\ games[task[t].gameId].status # "completed"
              /\ \A s \in Tasks \ {t} :
                    ~(/\ task[s].pc = "s_update" /\ task[s].pay.requested
                      /\ task[s].gameId = task[t].gameId)]_vars

\* joinGame outcomes that refuse the participant by a rule of the game, or
\* by the store's failure
Refusals == {"GameNotJoinable", "GameFull", "AlreadyJoined", "PaymentFailed",
             "JoinFailed"}

\* C22: when the App's join handler was run for a participant who had not
\* joined and held the entry fee, on a waiting game with free capacity, and
\* its joinGame call was not refused, a player record of the participant
\* exists once the handler has finished.
JoinHandlerAddsRecord ==
    [][(/\ app.pc = "a_joining" /\ app'.pc # "a_joining"
        /\ app.eligible
        /\ task[app.call].result \notin Refusals)
          => HoldsRecord(app.currentGameId, AppUser)']_vars

\* C23: a failed store request is told apart from an empty result:
\* getUserBalance does not yield 0 when its request fails, and joinGame does
\* not end with GameNotJoinable when its read of the game fails.
StorageFailureDistinguishable ==
    [][/\ (app.pc = "a_balance" /\ app'.pc = "a_current" /\ faults' < faults)
            => app'.balance # 0
       /\ \A t \in Tasks :
            (task[t].pc = "idle" /\ task'[t].op = "joinGame" /\ faults' < faults)
                => task'[t].result # "GameNotJoinable"]_vars

\* C28: at most one game is waiting at any time.
AtMostOneWaiting ==
    Cardinality({g \in Created : games[g].status = "waiting"}) <= 1

\* C29: a run of a handler of the App that has set loading to true sets it
\* back to false: when the handler has finished, loading is false.
HandlerEndsLoading ==
    [][(app.pc # "idle" /\ app'.pc = "idle") => ~app'.loading]_vars

====
